---- MODULE Spec2Model ----
(***************************************************************************)
(* Model of the page-speed audit handler of pine-perf-api.  The repository *)
(* holds two implementations of the same handler, src/run.js and           *)
(* src/api/run.js; the variable impl says which one is running.            *)
(*                                                                         *)
(* One behaviour is one invocation handler(req, res).  The handler is cut  *)
(* at its await points: the synchronous prefix up to fetch(), the fetch    *)
(* settling, r.text() settling, and r.json() settling followed by the      *)
(* synchronous transform.                                                  *)
(***************************************************************************)
EXTENDS Integers, Sequences, FiniteSets, TLC

VARIABLES impl, req, pc, res, sent, outbound, r, log, reached

vars == <<impl, req, pc, res, sent, outbound, r, log, reached>>

(***************************************************************************)
(* Bounds of the model.                                                    *)
(***************************************************************************)
\* largest number of distinct external hosts in a generated item list
MaxExternal == 8
\* largest number of repeated external items appended to an item list
MaxRepeat == 1

(***************************************************************************)
(* JavaScript values.  Every value is a record tagged by t.                *)
(* An array is [t |-> "arr", elems |-> <<...>>], a string is               *)
(* [t |-> "str", raw |-> "..."] with its characters.                       *)
(*                                                                         *)
(* A number is a double.  It is written n/d (lowest terms, d > 0) with a   *)
(* count ulp: the double ulp steps further from zero than the double       *)
(* nearest to n/d.  A decimal literal of JSON has ulp = 0.                 *)
(***************************************************************************)
Undef == [t |-> "undef"]
JNull == [t |-> "null"]
JObj  == [t |-> "obj"]
JBool(b) == [t |-> "bool", b |-> b]

RECURSIVE Gcd(_, _)
Gcd(a, b) == IF b = 0 THEN a ELSE Gcd(b, a % b)

Abs(n) == IF n < 0 THEN -n ELSE n

Rat(n, d) ==
    LET g == Gcd(Abs(n), d)
    IN  [t |-> "num", n |-> n \div g, d |-> d \div g, ulp |-> 0]

Num(n) == Rat(n, 1)

RawStr(s) == [t |-> "str", raw |-> s]

\* the URL string scheme://hN.example[:port]/ of host number name;
\* port -1 writes no port
UrlStr(scheme, name, port) ==
    RawStr(scheme \o "://h" \o ToString(name) \o ".example"
           \o (IF port = -1 THEN "" ELSE ":" \o ToString(port)) \o "/")

\* the string scheme:rest
OpaqueStr(scheme, rest) == RawStr(scheme \o ":" \o rest)

(***************************************************************************)
(* Characters.                                                             *)
(***************************************************************************)
\* the characters of a string, one per element
Chars(s) == SelectSeq(s, LAMBDA c : TRUE)

\* the string made of the characters (or strings) cs
RECURSIVE Join(_)
Join(cs) ==
    IF cs = <<>> THEN ""
    ELSE IF Len(cs) = 1 THEN cs[1]
    ELSE Join(SubSeq(cs, 1, Len(cs) \div 2)) \o Join(SubSeq(cs, Len(cs) \div 2 + 1, Len(cs)))

Alphas ==
    LET cs == Chars("abcdefghijklmnopqrstuvwxyzABCDEFGHIJKLMNOPQRSTUVWXYZ")
    IN  {cs[i] : i \in 1..52}

Digits == LET cs == Chars("0123456789") IN {cs[i] : i \in 1..10}

HexDigits == LET cs == Chars("0123456789abcdefABCDEF") IN {cs[i] : i \in 1..22}

\* the lower-case letter of each upper-case letter
LowerTable ==
    LET up  == Chars("ABCDEFGHIJKLMNOPQRSTUVWXYZ")
        low == Chars("abcdefghijklmnopqrstuvwxyz")
    IN  [c \in {up[i] : i \in 1..26} |-> low[CHOOSE i \in 1..26 : up[i] = c]]

ToLower(c) == IF c \in DOMAIN LowerTable THEN LowerTable[c] ELSE c

LowerCase(cs) == [i \in 1..Len(cs) |-> ToLower(cs[i])]

\* the value of a digit in a radix up to 16
DigitVal ==
    LET ds == Chars("0123456789abcdef")
    IN  [c \in HexDigits |-> (CHOOSE i \in 1..16 : ds[i] = ToLower(c)) - 1]

\* the C0 controls a string literal can hold
Controls == {"\t", "\n", "\r", "\f"}

\* the characters with codes 0x20 to 0x5F and 0x61 to 0x7E, in code order
\* (0x60, the grave accent, cannot be written in a string here)
Printable ==
    Chars(" !\"#$%&'()*+,-./0123456789:;<=>?@ABCDEFGHIJKLMNOPQRSTUVWXYZ[\\]^_")
    \o <<"">> \o Chars("abcdefghijklmnopqrstuvwxyz{|}~")

\* the ASCII characters a string can hold here
Ascii == {Printable[i] : i \in (1..95) \ {65}} \cup Controls

\* the first index from i on whose character is in set (not in set, when
\* inside is FALSE); past the end if none
First(cs, i, set, inside) ==
    IF i > Len(cs) THEN i
    ELSE CHOOSE j \in i..(Len(cs) + 1) :
            /\ j > Len(cs) \/ (cs[j] \in set) = inside
            /\ \A k \in i..(j - 1) : (cs[k] \in set) # inside

\* the last index up to i whose character is in set (not in set, when
\* inside is FALSE); 0 if none
LastWhere(cs, i, set, inside) ==
    CHOOSE j \in 0..i :
        /\ j = 0 \/ (cs[j] \in set) = inside
        /\ \A k \in (j + 1)..i : (cs[k] \in set) # inside

From(cs, i) == SubSeq(cs, i, Len(cs))

\* cs split at every ".": the k-th part lies between the (k-1)-th and
\* the k-th "."
SplitDots(cs) ==
    LET dots   == {j \in 1..Len(cs) : cs[j] = "."}
        n      == Cardinality(dots)
        dot(k) == IF k = 0 THEN 0
                  ELSE IF k > n THEN Len(cs) + 1
                  ELSE CHOOSE j \in dots : Cardinality({d \in dots : d < j}) = k - 1
    IN  [k \in 1..(n + 1) |-> SubSeq(cs, dot(k - 1) + 1, dot(k) - 1)]

(***************************************************************************)
(* String(v), as new URL(v) and searchParams.set(name, v) apply it.        *)
(***************************************************************************)
\* n/d as digits over a power of ten: n/d = digits / 10^places
RECURSIVE Decimal(_, _)
Decimal(n, d) ==
    LET g == Gcd(n, d)
        twos  == Decimal(5 * (n \div g), (d \div g) \div 2)
        fives == Decimal(2 * (n \div g), (d \div g) \div 5)
    IN  CASE d \div g = 1       -> [digits |-> n \div g, places |-> 0]
          [] (d \div g) % 2 = 0 -> [digits |-> twos.digits, places |-> twos.places + 1]
          [] (d \div g) % 5 = 0 -> [digits |-> fives.digits, places |-> fives.places + 1]

\* Number::toString of a decimal literal: plain digits, a decimal point,
\* or an exponent below 1e-6
Positional(sign, ds, places) ==
    LET k     == Len(ds)
        point == Len(ds) - places
    IN  IF places = 0 THEN sign \o ds
        ELSE IF point > 0
        THEN sign \o SubSeq(ds, 1, point) \o "." \o SubSeq(ds, point + 1, k)
        ELSE IF point > -6
        THEN sign \o "0." \o Join([i \in 1..(-point) |-> "0"]) \o ds
        ELSE sign \o SubSeq(ds, 1, 1)
                  \o (IF k > 1 THEN "." \o SubSeq(ds, 2, k) ELSE "")
                  \o "e-" \o ToString(1 - point)

NumText(v) ==
    CASE v.ulp = 0 ->
        Positional(IF v.n < 0 THEN "-" ELSE "",
                   ToString(Decimal(Abs(v.n), v.d).digits),
                   Decimal(Abs(v.n), v.d).places)

\* an exception, as a thrown completion
Thrown(message) == [threw |-> TRUE, message |-> message]

\* String(v) throws.  An object parsed from JSON holds no function, so an
\* own toString property hides Object.prototype.toString with a value that
\* cannot be called, and valueOf gives back the object: no primitive comes
\* out.  An array throws when joining reaches such an element.
RECURSIVE StringThrows(_)
StringThrows(v) ==
    CASE v.t = "obj" -> "toString" \in DOMAIN v
      [] v.t = "arr" -> \E i \in DOMAIN v.elems : StringThrows(v.elems[i])
      [] OTHER       -> FALSE

\* String(v): the text, or the TypeError it throws
RECURSIVE Text(_)
Text(v) ==
    IF StringThrows(v) THEN Thrown("Cannot convert object to primitive value")
    ELSE
    CASE v.t = "str"   -> v.raw
      [] v.t = "num"   -> NumText(v)
      [] v.t = "undef" -> "undefined"
      [] v.t = "null"  -> "null"
      [] v.t = "bool"  -> IF v.b THEN "true" ELSE "false"
      [] v.t = "arr"   ->
            Join([i \in 1..(2 * Len(v.elems) - 1) |->
                     IF i % 2 = 0 THEN ","
                     ELSE IF v.elems[(i + 1) \div 2].t \in {"undef", "null"} THEN ""
                     ELSE Text(v.elems[(i + 1) \div 2])])
      [] v.t = "obj"   -> "[object Object]"

\* the string value String(v), or the TypeError it throws
ToStr(v) == IF StringThrows(v) THEN Text(v) ELSE RawStr(Text(v))

\* Variant of Truthy that tests v != null: '', 0 and false count as present.
TruthyNotNullish(v) == v.t \notin {"undef", "null"}

\* ToBoolean(v), as used by !url, v ? a : b and v || w
Truthy(v) ==
    CASE v.t = "undef" -> FALSE
      [] v.t = "null"  -> FALSE
      [] v.t = "num"   -> v.n # 0
      [] v.t = "bool"  -> v.b
      [] v.t = "str"   -> v.raw # ""
      [] OTHER         -> TRUE

\* v == null (true of null and undefined)
IsNullish(v) == v.t \in {"undef", "null"}

\* v ?? w
Coalesce(v, w) == IF IsNullish(v) THEN w ELSE v

(***************************************************************************)
(* Doubles, bit by bit: [e, bits] is the positive double                   *)
(* bits * 2^(e - 52), bits being the 53 bits of its significand, the       *)
(* highest (a 1) first.                                                    *)
(***************************************************************************)
\* the bits of a positive integer, highest first
RECURSIVE BitsOf(_)
BitsOf(n) == IF n < 2 THEN <<n>> ELSE Append(BitsOf(n \div 2), n % 2)

\* One step of the long division by den: the next bit of the dividend is
\* brought down to the remainder and gives the next bit of the quotient.
\* The bits before the quotient's first 1 are only counted (lead); the
\* division is over once 53 bits are out.
DivStep(st, bit, den) ==
    IF Len(st.out) = 53 THEN st
    ELSE IF 2 * st.rem + bit < den /\ st.out = <<>>
    THEN [st EXCEPT !.rem = 2 * st.rem + bit, !.lead = st.lead + 1]
    ELSE IF 2 * st.rem + bit < den
    THEN [st EXCEPT !.rem = 2 * st.rem + bit, !.out = Append(st.out, 0)]
    ELSE [st EXCEPT !.rem = 2 * st.rem + bit - den, !.out = Append(st.out, 1)]

\* Long division of the binary number num (followed by zeros) by den,
\* over the bit positions lo..hi from the state st.  The range is halved
\* so that the evaluation stays shallow; the test on first.out is always
\* true and only makes the first half be computed before the second.
RECURSIVE LongDiv(_, _, _, _, _)
LongDiv(num, lo, hi, den, st) ==
    IF lo = hi THEN DivStep(st, IF lo <= Len(num) THEN num[lo] ELSE 0, den)
    ELSE LET first == LongDiv(num, lo, (lo + hi) \div 2, den, st)
         IN  IF Len(first.out) <= 53
             THEN LongDiv(num, (lo + hi) \div 2 + 1, hi, den, first)
             ELSE first

\* the next double away from zero
Succ(x) ==
    LET z == LastWhere(x.bits, 53, {0}, TRUE)
    IN  IF z = 0 THEN [e |-> x.e + 1, bits |-> [i \in 1..53 |-> IF i = 1 THEN 1 ELSE 0]]
        ELSE [e |-> x.e,
              bits |-> [i \in 1..53 |-> IF i < z THEN x.bits[i] ELSE IF i = z THEN 1 ELSE 0]]

\* the next double toward zero
Pred(x) ==
    LET z == LastWhere(x.bits, 53, {1}, TRUE)
    IN  IF z = 1 THEN [e |-> x.e - 1, bits |-> [i \in 1..53 |-> 1]]
        ELSE [e |-> x.e,
              bits |-> [i \in 1..53 |-> IF i < z THEN x.bits[i] ELSE IF i = z THEN 0 ELSE 1]]

RECURSIVE Steps(_, _)
Steps(x, k) ==
    IF k = 0 THEN x ELSE IF k > 0 THEN Steps(Succ(x), k - 1) ELSE Steps(Pred(x), k + 1)

\* the quotient num * 2^unit / den rounded to the nearest double, ties to
\* the even significand
Rounded(q, top, den) ==
    IF 2 * q.rem > den \/ (2 * q.rem = den /\ q.out[53] = 1)
    THEN Succ([e |-> top - (q.lead + 1), bits |-> q.out])
    ELSE [e |-> top - (q.lead + 1), bits |-> q.out]

\* the quotient num * 2^unit / den rounded to the nearest double, ties to
\* the even significand.  The quotient's first 1 comes within 31 bits
\* after the dividend's last one (den < 2^31), and 52 bits follow it.
Quotient(num, unit, den) ==
    Rounded(LongDiv(num, 1, Len(num) + 31 + 52, den, [rem |-> 0, lead |-> 0, out |-> <<>>]),
            Len(num) + unit, den)

\* the double nearest to p/q, for positive integers p and q
NearestDouble(p, q) == Quotient(BitsOf(p), 0, q)

\* the double a number stands for, sign apart (a # 0)
DoubleOf(a) == Steps(NearestDouble(Abs(a.n), a.d), a.ulp)

\* how many doubles x lies above y, counted over the bits lo..hi of their
\* significands: acc is the count over the bits before; the count stops
\* growing once the two are far apart.  The range is halved as in LongDiv.
RECURSIVE StepsBetween(_, _, _, _, _)
StepsBetween(x, y, lo, hi, acc) ==
    IF lo = hi
    THEN (IF Abs(acc) > 1024 THEN acc ELSE 2 * acc + x.bits[lo] - y.bits[lo])
    ELSE LET first == StepsBetween(x, y, lo, (lo + hi) \div 2, acc)
         IN  IF Abs(first) >= 0
             THEN StepsBetween(x, y, (lo + hi) \div 2 + 1, hi, first)
             ELSE first

RECURSIVE IsPowerOf2(_)
IsPowerOf2(d) == d = 1 \/ (d % 2 = 0 /\ IsPowerOf2(d \div 2))

\* a / k for a number a and a positive integer k: the double a divided by
\* k, rounded.  When a is n/d exactly (d a power of two) the quotient is
\* the double nearest to n/(d * k); otherwise it may lie a step off it.
DivDouble(q, x, y) == [q EXCEPT !.ulp = StepsBetween(x, y, 2, 53, x.e - y.e)]

DivBy(a, k) ==
    IF a.n = 0 THEN a
    ELSE IF a.ulp = 0 /\ IsPowerOf2(a.d) THEN Rat(a.n, a.d * k)
    ELSE DivDouble(Rat(a.n, a.d * k),
                   Quotient(DoubleOf(a).bits, DoubleOf(a).e - 52, k),
                   NearestDouble(Abs(a.n), a.d * k))

\* a < p/q and a >= p/q for a number a (q > 0); a number off its n/d lies
\* on the side of its sign
Lt(a, p, q) ==
    \/ a.n * q < p * a.d
    \/ a.n * q = p * a.d /\ (IF a.n < 0 THEN -a.ulp ELSE a.ulp) < 0
Geq(a, p, q) == ~Lt(a, p, q)

(***************************************************************************)
(* Math.round(a * 100).  The product is an IEEE double: when n/d * 100 is  *)
(* not exactly halfway between two integers the double rounds like the     *)
(* exact product; when it is (n/d = m/200, m odd) the double a, times 100, *)
(* rounded to a double, may fall short of (or beyond) the half.            *)
(***************************************************************************)
RECURSIVE FloorLog2(_)
FloorLog2(q) == IF q < 2 THEN 0 ELSE 1 + FloorLog2(q \div 2)

\* the least k with m * 2^k >= 200
RECURSIVE ShiftsTo200(_)
ShiftsTo200(m) == IF m >= 200 THEN 0 ELSE 1 + ShiftsTo200(2 * m)

RECURSIVE Pow2(_)
Pow2(k) == IF k = 0 THEN 1 ELSE 2 * Pow2(k - 1)

RECURSIVE Pow2Mod400(_)
Pow2Mod400(k) ==
    IF k = 0 THEN 1
    ELSE IF k % 2 = 1 THEN (2 * Pow2Mod400(k - 1)) % 400
    ELSE (Pow2Mod400(k \div 2) * Pow2Mod400(k \div 2)) % 400

\* For the double x that lies ulp steps beyond the double nearest to m/200
\* (m > 0 odd): 200 * 2^s * (x - m/200), where 2^s scales x to its 53-bit
\* significand.
SignificandError(m, ulp) ==
    LET u    == IF m >= 200 THEN FloorLog2(m \div 200) ELSE -ShiftsTo200(m)
        rem  == ((m % 400) * Pow2Mod400(52 - u)) % 400
        low  == rem % 200
    IN  200 * ulp + (IF low < 100 THEN -low
                     ELSE IF low > 100 THEN 200 - low
                     ELSE IF rem >= 200 THEN 100 ELSE -100)

\* the error of x * 100 that one rounding step to a double absorbs:
\* half the spacing of doubles at m/2, in the unit of SignificandError
Absorbed(m) ==
    LET u == IF m >= 200 THEN FloorLog2(m \div 200) ELSE -ShiftsTo200(m)
        t == IF m >= 2 THEN FloorLog2(m \div 2) ELSE -1
    IN  Pow2(t - u)

\* the double product lies below m/2 (m > 0 odd); at m = 1 the half is a
\* power of two and the doubles below it are twice as dense
ProductBelowHalf(m, ulp) ==
    /\ SignificandError(m, ulp) < 0
    /\ -SignificandError(m, ulp) > (IF m = 1 THEN Absorbed(m) \div 2 ELSE Absorbed(m))

\* the double product lies above m/2 (m > 0 odd)
ProductAboveHalf(m, ulp) == SignificandError(m, ulp) > Absorbed(m)

Round100(a) ==
    LET exact == (200 * a.n + a.d) \div (2 * a.d)
        tie   == (200 * a.n) % (2 * a.d) = a.d
        m     == (200 * a.n) \div a.d
        short == IF m > 0 THEN ProductBelowHalf(m, a.ulp) ELSE ProductAboveHalf(-m, a.ulp)
    IN  IF tie /\ short THEN Num(exact - 1) ELSE Num(exact)

(***************************************************************************)
(* new URL(s) without a base, as far as .host needs it: the WHATWG URL     *)
(* parser for ASCII input.  Hosts that need IDNA (a character outside      *)
(* ASCII, a label in xn--) are outside it.                                 *)
(***************************************************************************)
\* the input without leading and trailing controls and spaces, and without
\* tabs and newlines
Preprocess(s) ==
    LET cs == Chars(s)
        a  == First(cs, 1, Controls \cup {" "}, FALSE)
        b  == LastWhere(cs, Len(cs), Controls \cup {" "}, FALSE)
    IN  SelectSeq(SubSeq(cs, a, b), LAMBDA c : c \notin {"\t", "\n", "\r"})

\* the index of the ":" that ends the scheme; 0 when cs starts with none
SchemeEnd(cs) ==
    IF cs = <<>> THEN 0
    ELSE IF cs[1] \notin Alphas THEN 0
    ELSE LET e == First(cs, 2, Alphas \cup Digits \cup {"+", "-", "."}, FALSE)
         IN  IF e <= Len(cs) /\ cs[e] = ":" THEN e ELSE 0

SpecialSchemes == {"http", "https", "ws", "wss", "ftp", "file"}

\* the default port of the schemes that have one; -1 for the others
DefaultPort(scheme) ==
    CASE scheme \in {"http", "ws"}   -> 80
      [] scheme \in {"https", "wss"} -> 443
      [] scheme = "ftp"              -> 21
      [] OTHER                       -> -1

Failure == [ok |-> FALSE]
Parsed(host) == [ok |-> TRUE, host |-> host]

ForbiddenHost ==
    {"\t", "\n", "\r", " ", "#", "/", ":", "<", ">", "?", "@", "[", "\\", "]", "^", "|"}

ForbiddenDomain == ForbiddenHost \cup Controls \cup {"%"}

\* a number of an IPv4 address: four base-256 digits, lowest first, and
\* whether the number went past them
Zero4 == [b |-> <<0, 0, 0, 0>>, over |-> FALSE]

MulAdd(st, radix, digit) ==
    LET t1 == st.b[1] * radix + digit
        t2 == st.b[2] * radix + t1 \div 256
        t3 == st.b[3] * radix + t2 \div 256
        t4 == st.b[4] * radix + t3 \div 256
    IN  [b |-> <<t1 % 256, t2 % 256, t3 % 256, t4 % 256>>,
         over |-> st.over \/ t4 >= 256]

RECURSIVE Accumulate(_, _, _, _)
Accumulate(cs, i, radix, st) ==
    IF i > Len(cs) THEN st
    ELSE Accumulate(cs, i + 1, radix, MulAdd(st, radix, DigitVal[cs[i]]))

\* the digits of an IPv4 number read in their radix
Ipv4Digits(digits, radix) ==
    IF \A i \in 1..Len(digits) :
          digits[i] \in HexDigits /\ DigitVal[digits[i]] < radix
    THEN [ok |-> TRUE, num |-> Accumulate(digits, 1, radix, Zero4)]
    ELSE Failure

\* the IPv4 number parser: decimal, 0x hexadecimal or 0 octal
Ipv4Number(part) ==
    IF part = <<>> THEN Failure
    ELSE IF Len(part) >= 2 /\ part[1] = "0" /\ part[2] \in {"x", "X"}
    THEN Ipv4Digits(From(part, 3), 16)
    ELSE IF Len(part) >= 2 /\ part[1] = "0"
    THEN Ipv4Digits(From(part, 2), 8)
    ELSE Ipv4Digits(part, 10)

\* the parts the IPv4 checks look at: a last empty part is dropped unless
\* it is the only one
Ipv4Parts(parts) ==
    IF parts[Len(parts)] = <<>> /\ Len(parts) > 1
    THEN SubSeq(parts, 1, Len(parts) - 1)
    ELSE parts

EndsInNumber(parts) ==
    IF parts[Len(parts)] = <<>> THEN FALSE
    ELSE IF \A i \in 1..Len(parts[Len(parts)]) : parts[Len(parts)][i] \in Digits THEN TRUE
    ELSE Ipv4Number(parts[Len(parts)]).ok

\* the address of k numbers, the last one filling the bytes left
Ipv4Address(nums, k) ==
    LET big(i)  == nums[i].num.over \/ \E j \in 2..4 : nums[i].num.b[j] # 0
        byte(i) == IF i < k THEN nums[i].num.b[1] ELSE nums[k].num.b[5 - i]
    IN  IF k > 4 THEN Failure
        ELSE IF \E i \in 1..k : ~nums[i].ok THEN Failure
        ELSE IF \E i \in 1..(k - 1) : big(i) THEN Failure
        ELSE IF nums[k].num.over \/ \E j \in 1..4 : j > 5 - k /\ nums[k].num.b[j] # 0
        THEN Failure
        ELSE Parsed(ToString(byte(1)) \o "." \o ToString(byte(2)) \o "."
                    \o ToString(byte(3)) \o "." \o ToString(byte(4)))

Ipv4Parse(parts) ==
    Ipv4Address([i \in 1..Len(parts) |-> Ipv4Number(parts[i])], Len(parts))

\* the character at p, or EOF past the end
At(cs, p) == IF p <= Len(cs) THEN cs[p] ELSE "EOF"

\* the dotted IPv4 ending of an IPv6 address, read from p into the pieces
\* a at index pi (counted from 0), seen numbers done
RECURSIVE Ipv4InIpv6(_, _, _, _, _)
Ipv4InIpv6(cs, p, a, pi, seen) ==
    IF p > Len(cs) THEN (IF seen = 4 THEN [ok |-> TRUE, a |-> a] ELSE Failure)
    ELSE LET q == IF seen > 0 THEN p + 1 ELSE p
             e == First(cs, q, Digits, FALSE)
             digits == SubSeq(cs, q, e - 1)
             piece  == Accumulate(digits, 1, 10, Zero4)
         IN  IF seen > 0 /\ ~(cs[p] = "." /\ seen < 4) THEN Failure
             ELSE IF digits = <<>> THEN Failure
             ELSE IF Len(digits) > 1 /\ digits[1] = "0" THEN Failure
             ELSE IF Len(digits) > 3 \/ piece.over \/ piece.b[2] # 0 THEN Failure
             ELSE Ipv4InIpv6(cs, e,
                             [a EXCEPT ![pi + 1] = a[pi + 1] * 256 + piece.b[1]],
                             IF seen \in {1, 3} THEN pi + 1 ELSE pi,
                             seen + 1)

\* the hexadecimal piece from p to e (four digits at most), or the dotted
\* ending that starts at p
RECURSIVE Ipv6Pieces(_, _, _, _, _)
Ipv6Piece(cs, p, a, pi, comp, e) ==
    LET c    == At(cs, e)
        v    == Accumulate(SubSeq(cs, p, e - 1), 1, 16, Zero4)
        tail == Ipv4InIpv6(cs, p, a, pi, 0)
    IN  IF c = "."
        THEN IF e = p \/ pi > 6 \/ ~tail.ok THEN Failure
             ELSE [ok |-> TRUE, a |-> tail.a, pi |-> pi + 2, comp |-> comp]
        ELSE IF c = ":" /\ e + 1 > Len(cs) THEN Failure
        ELSE IF c \notin {":", "EOF"} THEN Failure
        ELSE Ipv6Pieces(cs, IF c = ":" THEN e + 1 ELSE e,
                        [a EXCEPT ![pi + 1] = v.b[1] + 256 * v.b[2]], pi + 1, comp)

Ipv6Pieces(cs, p, a, pi, comp) ==
    IF p > Len(cs) THEN [ok |-> TRUE, a |-> a, pi |-> pi, comp |-> comp]
    ELSE IF pi = 8 THEN Failure
    ELSE IF cs[p] = ":" /\ comp # -1 THEN Failure
    ELSE IF cs[p] = ":" THEN Ipv6Pieces(cs, p + 1, a, pi + 1, pi + 1)
    ELSE Ipv6Piece(cs, p, a, pi, comp,
                   IF First(cs, p, HexDigits, FALSE) - p > 4 THEN p + 4
                   ELSE First(cs, p, HexDigits, FALSE))

\* the eight pieces, those after the "::" moved to the end
Ipv6Finish(got) ==
    IF ~got.ok THEN Failure
    ELSE IF got.comp # -1
    THEN [ok |-> TRUE,
          a  |-> [i \in 1..8 |->
                    IF i <= got.comp THEN got.a[i]
                    ELSE IF i > 8 - (got.pi - got.comp) THEN got.a[i - (8 - got.pi)]
                    ELSE 0]]
    ELSE IF got.pi # 8 THEN Failure
    ELSE [ok |-> TRUE, a |-> got.a]

\* the pieces are read from 1, or from 3 after a leading "::"
Ipv6Parse(cs) ==
    IF At(cs, 1) = ":" /\ At(cs, 2) # ":" THEN Failure
    ELSE Ipv6Finish(Ipv6Pieces(cs, IF At(cs, 1) = ":" THEN 3 ELSE 1, [i \in 1..8 |-> 0],
                               IF At(cs, 1) = ":" THEN 1 ELSE 0,
                               IF At(cs, 1) = ":" THEN 1 ELSE -1))

RECURSIVE Hex(_)
Hex(n) ==
    IF n < 16 THEN SubSeq("0123456789abcdef", n + 1, n + 1)
    ELSE Hex(n \div 16) \o Hex(n % 16)

\* the length of the run of zero pieces that starts at i
RECURSIVE ZeroRun(_, _)
ZeroRun(a, i) == IF i > 8 THEN 0 ELSE IF a[i] # 0 THEN 0 ELSE 1 + ZeroRun(a, i + 1)

\* the pieces from the i-th on: the first longest run of zeros, when it is
\* longer than one, is written "::" (it starts at comp, 0 if there is none)
RECURSIVE PiecesText(_, _, _, _)
PiecesText(a, i, comp, longest) ==
    IF i > 8 THEN ""
    ELSE (IF comp # 0 /\ i = comp THEN (IF i = 1 THEN "::" ELSE ":")
          ELSE IF comp # 0 /\ i > comp /\ i < comp + longest THEN ""
          ELSE Hex(a[i]) \o (IF i # 8 THEN ":" ELSE ""))
         \o PiecesText(a, i + 1, comp, longest)

Ipv6Serialize(a) ==
    LET longest == CHOOSE n \in 0..8 :
                      /\ \E i \in 1..8 : ZeroRun(a, i) = n
                      /\ \A i \in 1..8 : ZeroRun(a, i) <= n
        comp    == IF longest < 2 THEN 0
                   ELSE CHOOSE i \in 1..8 :
                          /\ ZeroRun(a, i) = longest
                          /\ \A j \in 1..(i - 1) : ZeroRun(a, j) # longest
    IN  "[" \o PiecesText(a, 1, comp, longest) \o "]"

\* percent-decoding, for the bytes that are ASCII: a control byte (and
\* DEL) decodes to a control character.  The two digits of an escape are
\* dropped; being digits, they start no escape of their own.
PercentDecode(cs) ==
    LET esc(j)  == /\ j >= 1
                   /\ j + 2 <= Len(cs)
                   /\ cs[j] = "%"
                   /\ cs[j + 1] \in HexDigits
                   /\ cs[j + 2] \in HexDigits
        code(j) == 16 * DigitVal[cs[j + 1]] + DigitVal[cs[j + 2]]
        byte(j) == CASE code(j) >= 32 /\ code(j) <= 126 /\ code(j) # 96 ->
                            Printable[code(j) - 31]
                     [] code(j) < 32 \/ code(j) = 127 -> "\f"
    IN  SelectSeq([j \in 1..Len(cs) |->
                      IF esc(j) THEN byte(j)
                      ELSE IF esc(j - 1) \/ esc(j - 2) THEN ""
                      ELSE cs[j]],
                  LAMBDA c : c # "")

HasPunycodeLabel(parts) ==
    \E i \in 1..Len(parts) :
       Len(parts[i]) >= 4 /\ SubSeq(parts[i], 1, 4) = <<"x", "n", "-", "-">>

\* the host of a URL whose scheme is not special: kept as written
OpaqueHostParse(cs) ==
    CASE \A i \in 1..Len(cs) : cs[i] \in Ascii ->
    IF \E i \in 1..Len(cs) : cs[i] \in ForbiddenHost THEN Failure
    ELSE Parsed(Join([i \in 1..Len(cs) |-> IF cs[i] = "\f" THEN "%0C" ELSE cs[i]]))

\* the host of a URL whose scheme is special: an ASCII domain in lower
\* case, or an IPv4 address
DomainHost(domain, parts) ==
    CASE ~HasPunycodeLabel(parts) /\ \A i \in 1..Len(domain) : domain[i] \in Ascii ->
        IF domain = <<>> THEN Failure
        ELSE IF \E i \in 1..Len(domain) : domain[i] \in ForbiddenDomain THEN Failure
        ELSE IF EndsInNumber(Ipv4Parts(parts)) THEN Ipv4Parse(Ipv4Parts(parts))
        ELSE Parsed(Join(domain))

DomainParse(cs) ==
    DomainHost(LowerCase(PercentDecode(cs)), SplitDots(LowerCase(PercentDecode(cs))))

Ipv6Host(addr) == IF addr.ok THEN Parsed(Ipv6Serialize(addr.a)) ELSE Failure

HostParse(cs, opaque) ==
    IF cs # <<>> /\ cs[1] = "["
    THEN IF cs[Len(cs)] # "]" THEN Failure
         ELSE Ipv6Host(Ipv6Parse(SubSeq(cs, 2, Len(cs) - 1)))
    ELSE IF opaque THEN OpaqueHostParse(cs)
    ELSE DomainParse(cs)

\* the index of the first ":" outside square brackets; 0 if none.  A
\* character is inside when the last bracket before it is a "[".
PortColon(cs) ==
    LET before(j) == LastWhere(cs, j - 1, {"[", "]"}, TRUE)
        port(j)   == cs[j] = ":" /\ (before(j) = 0 \/ cs[before(j)] = "]")
    IN  IF \A j \in 1..Len(cs) : ~port(j) THEN 0
        ELSE CHOOSE j \in 1..Len(cs) : port(j) /\ \A k \in 1..(j - 1) : ~port(k)

\* the port written in digits: -1 when none is written, -2 when too large
PortNumber(digits) ==
    LET sig == From(digits, First(digits, 1, {"0"}, FALSE))
        v   == Accumulate(sig, 1, 10, Zero4)
    IN  IF digits = <<>> THEN -1
        ELSE IF Len(sig) > 5 \/ v.b[3] # 0 THEN -2
        ELSE v.b[1] + 256 * v.b[2]

\* the host with the port, unless the port is the scheme's default
WithPort(scheme, host, port) ==
    IF ~host.ok \/ port = -2 THEN Failure
    ELSE IF port = -1 \/ port = DefaultPort(scheme) THEN host
    ELSE Parsed(host.host \o ":" \o ToString(port))

\* host and port of the authority hp after its credentials, k the index
\* of the ":" before the port (0 if none)
HostAndPort(scheme, special, hp, k, host, pt) ==
    IF k = 0 THEN (IF special /\ hp = <<>> THEN Failure ELSE host)
    ELSE IF k = 1 THEN Failure
    ELSE IF \E i \in 1..Len(pt) : pt[i] \notin Digits THEN Failure
    ELSE WithPort(scheme, host, PortNumber(pt))

HostPortAt(scheme, special, hp, k) ==
    HostAndPort(scheme, special, hp, k,
                HostParse(IF k = 0 THEN hp ELSE SubSeq(hp, 1, k - 1), ~special),
                From(hp, k + 1))

\* the authority of a URL, from its first character to the path: the
\* credentials end at the last "@"
AuthorityParse(scheme, cs, special) ==
    LET stop == First(cs, 1, IF special THEN {"/", "?", "#", "\\"} ELSE {"/", "?", "#"}, TRUE)
        auth == SubSeq(cs, 1, stop - 1)
        at   == LastWhere(auth, Len(auth), {"@"}, TRUE)
        hp   == From(auth, at + 1)
    IN  IF at > 0 /\ hp = <<>> THEN Failure
        ELSE HostPortAt(scheme, special, hp, PortColon(hp))

FileHost(host) ==
    IF ~host.ok THEN Failure
    ELSE IF host.host = "localhost" THEN Parsed("")
    ELSE host

\* what follows "file:"
FileParse(cs) ==
    LET rest == From(cs, 3)
        buf  == SubSeq(rest, 1, First(rest, 1, {"/", "\\", "?", "#"}, TRUE) - 1)
    IN  IF ~(At(cs, 1) \in {"/", "\\"} /\ At(cs, 2) \in {"/", "\\"}) THEN Parsed("")
        ELSE IF Len(buf) = 2 /\ buf[1] \in Alphas /\ buf[2] \in {":", "|"} THEN Parsed("")
        ELSE IF buf = <<>> THEN Parsed("")
        ELSE FileHost(HostParse(buf, FALSE))

AfterScheme(scheme, rest) ==
    IF scheme = "file" THEN FileParse(rest)
    ELSE IF scheme \in SpecialSchemes \/ (At(rest, 1) = "/" /\ At(rest, 2) = "/")
    THEN AuthorityParse(scheme,
                        From(rest, IF scheme \in SpecialSchemes
                                   THEN First(rest, 1, {"/", "\\"}, FALSE)
                                   ELSE 3),
                        scheme \in SpecialSchemes)
    ELSE Parsed("")

SchemeAt(cs, colon) ==
    IF colon = 0 THEN Failure
    ELSE AfterScheme(Join(LowerCase(SubSeq(cs, 1, colon - 1))), From(cs, colon + 1))

\* new URL(s) without a base, as far as the host: whether it parses, and
\* what .host then reads
ParseUrl(s) == SchemeAt(Preprocess(s), SchemeEnd(Preprocess(s)))

\* new URL(v) does not throw
UrlParses(v) == ~StringThrows(v) /\ ParseUrl(Text(v)).ok

\* new URL(v).host
HostOf(v) == ParseUrl(Text(v)).host

(***************************************************************************)
(* Property access on parsed JSON.                                         *)
(***************************************************************************)
\* o.f for a non-nullish o: undefined when o has no property f
Get(o, f) == IF o.t = "obj" /\ f \in DOMAIN o THEN o[f] ELSE Undef

\* o?.f
Opt(o, f) == IF IsNullish(o) THEN Undef ELSE Get(o, f)

\* v || {}
OrEmpty(v) == IF Truthy(v) THEN v ELSE JObj

(***************************************************************************)
(* The transform: core metrics.                                            *)
(***************************************************************************)
lrOf(data)     == OrEmpty(Get(data, "lighthouseResult"))
auditsOf(data) == OrEmpty(Get(lrOf(data), "audits"))
catsOf(data)   == OrEmpty(Get(lrOf(data), "categories"))

NumericValue(audits, name) == Opt(Get(audits, name), "numericValue")

score(data) ==
    Round100(Coalesce(Opt(Get(catsOf(data), "performance"), "score"), Num(0)))

lcp(audits) ==
    LET v == NumericValue(audits, "largest-contentful-paint")
    IN  IF Truthy(v) THEN DivBy(v, 1000) ELSE JNull

cls(audits) == Coalesce(NumericValue(audits, "cumulative-layout-shift"), JNull)

inp(audits) ==
    LET v == NumericValue(audits, "experimental-interaction-to-next-paint")
    IN  IF IsNullish(v)
        THEN Coalesce(NumericValue(audits, "max-potential-fid"), JNull)
        ELSE v

\* audits['network-requests']?.details?.items
itemsOf(audits) == Opt(Opt(Get(audits, "network-requests"), "details"), "items")

\* items?.length ?? null: arrays and strings have a length of their own,
\* an object has the length property the JSON gives it, if any
reqs(audits) ==
    LET items == itemsOf(audits)
    IN  IF IsNullish(items) THEN JNull
        ELSE IF items.t = "arr" THEN Num(Len(items.elems))
        ELSE IF items.t = "str" THEN Num(Len(items.raw))
        ELSE Coalesce(Get(items, "length"), JNull)

pageSizeMB(audits) ==
    LET bytes == Coalesce(NumericValue(audits, "total-byte-weight"), JNull)
    IN  IF Truthy(bytes) THEN DivBy(bytes, 1024 * 1024) ELSE JNull

loadTimeS(audits) ==
    LET si  == NumericValue(audits, "speed-index")
        tti == NumericValue(audits, "interactive")
    IN  IF Truthy(si) THEN DivBy(si, 1000)
        ELSE IF Truthy(tti) THEN DivBy(tti, 1000)
        ELSE JNull

(***************************************************************************)
(* The transform: issue grading.  An issue is what res.json serialises:    *)
(* src/run.js passes a tip, src/api/run.js passes none, so the tip         *)
(* property is undefined there and JSON.stringify leaves it out.           *)
(***************************************************************************)
addIssue(im, issues, key, label, grade, tip) ==
    Append(issues,
           IF im = "run"
           THEN [key |-> key, label |-> label, grade |-> grade, tip |-> tip]
           ELSE [key |-> key, label |-> label, grade |-> grade])

\* reqs != null && reqs > k, for a length that is a number or a boolean
\* (true counts 1, false 0)
ReqsOver(q, k) ==
    CASE IsNullish(q) -> FALSE
      [] q.t = "num"  -> ~Lt(q, k, 1) /\ (q.n # k * q.d \/ q.ulp # 0)
      [] q.t = "bool" -> FALSE

httpRequestsRule(im, issues, q) ==
    LET label == "Make fewer HTTP requests"
    IN  IF ReqsOver(q, 90)
        THEN addIssue(im, issues, "http_requests", label, "F",
               "Concatenate or defer non-critical scripts; lazy-load below-the-fold assets.")
        ELSE IF ReqsOver(q, 60)
        THEN addIssue(im, issues, "http_requests", label, "D",
               "Combine CSS/JS where possible and remove unused libraries.")
        ELSE IF ReqsOver(q, 40)
        THEN addIssue(im, issues, "http_requests", label, "C",
               "Audit plugins and third-party tags.")
        ELSE IF im = "api"
        THEN addIssue(im, issues, "http_requests", label, "B", "")
        ELSE issues

expiresHeadersRule(im, issues, cacheScore) ==
    LET label == "Add Expires headers"
        add(grade, tip) == addIssue(im, issues, "expires_headers", label, grade, tip)
    IN  IF im = "run"
        THEN IF IsNullish(cacheScore)
             THEN add("C", "Serve static assets with far-future cache and versioned filenames.")
             ELSE IF Lt(cacheScore, 9, 10) /\ Geq(cacheScore, 7, 10)
             THEN add("B", "Increase cache TTL on images, fonts and compiled assets.")
             ELSE IF Lt(cacheScore, 7, 10) /\ Geq(cacheScore, 4, 10)
             THEN add("C", "Set Cache-Control/ETag on static assets.")
             ELSE IF Lt(cacheScore, 4, 10)
             THEN add("D", "Enable long-term caching via CDN or server rules.")
             ELSE issues
        ELSE IF IsNullish(cacheScore) THEN add("C", "")
             ELSE IF Geq(cacheScore, 9, 10) THEN add("A", "")
             ELSE IF Geq(cacheScore, 7, 10) THEN add("B", "")
             ELSE IF Geq(cacheScore, 4, 10) THEN add("C", "")
             ELSE add("D", "")

gzipRule(im, issues, compression) ==
    LET label == "Compress components with gzip/brotli"
        add(grade, tip) == addIssue(im, issues, "gzip", label, grade, tip)
    IN  IF im = "run"
        THEN IF IsNullish(compression)
             THEN add("C", "Turn on gzip/brotli at hosting/CDN level.")
             ELSE IF Lt(compression, 9, 10) /\ Geq(compression, 7, 10)
             THEN add("B", "Ensure brotli is enabled for text assets.")
             ELSE IF Lt(compression, 7, 10) /\ Geq(compression, 4, 10)
             THEN add("C", "Compress HTML/CSS/JS; avoid uncompressed bundles.")
             ELSE IF Lt(compression, 4, 10)
             THEN add("D", "Enable compression at origin/CDN and re-deploy.")
             ELSE issues
        ELSE IF IsNullish(compression) THEN add("C", "")
             ELSE IF Geq(compression, 9, 10) THEN add("A", "")
             ELSE IF Geq(compression, 7, 10) THEN add("B", "")
             ELSE IF Geq(compression, 4, 10) THEN add("C", "")
             ELSE add("D", "")

\* items ?? []
itemList(audits) == Coalesce(itemsOf(audits), [t |-> "arr", elems |-> <<>>])

\* for (const it of items) takes arrays and strings; anything else throws
Iterable(items) == items.t \in {"arr", "str"}

\* the values the loop visits, in order: the elements of an array, the
\* characters of a string
Iterated(items) ==
    IF items.t = "arr" THEN items.elems
    ELSE [i \in 1..Len(items.raw) |-> RawStr(Chars(items.raw)[i])]

\* new URL(it.url) inside the loop's try: it.url of a null item throws,
\* new URL throws on a url that has no text or whose text does not parse
\* (an item without url reads "undefined"); either way the item is skipped
ItemUrl(it) ==
    IF IsNullish(it) THEN Failure
    ELSE IF StringThrows(Get(it, "url")) THEN Failure
    ELSE ParseUrl(Text(Get(it, "url")))

\* one pass of the for loop's body over the item it: st.seen is the Set of
\* hosts met so far, st.n the running externalHosts counter
loopStep(st, parsed, originHost) ==
    IF ~parsed.ok THEN st
    ELSE IF parsed.host \in st.seen THEN st
    ELSE [seen |-> st.seen \cup {parsed.host},
          n    |-> IF parsed.host # originHost THEN st.n + 1 ELSE st.n]

loopBody(st, it, originHost) == loopStep(st, ItemUrl(it), originHost)

\* the for loop over elems[lo..hi], in order, from the loop state st.
\* The range is halved so that long item lists stay shallow to evaluate;
\* the test on first.n is always true and only makes the first half's
\* state be computed before the second half starts.
RECURSIVE forLoop(_, _, _, _, _)
forLoop(elems, lo, hi, originHost, st) ==
    IF lo > hi THEN st
    ELSE IF lo = hi THEN loopBody(st, elems[lo], originHost)
    ELSE LET mid   == (lo + hi) \div 2
             first == forLoop(elems, lo, mid, originHost, st)
         IN  IF first.n >= 0
             THEN forLoop(elems, mid + 1, hi, originHost, first)
             ELSE first

externalHosts(elems, originHost) ==
    forLoop(elems, 1, Len(elems), originHost, [seen |-> {}, n |-> 0]).n

dnsRule(im, issues, ext) ==
    LET label == "Reduce DNS lookups"
        add(grade, tip) == addIssue(im, issues, "dns", label, grade, tip)
    IN  IF ext > 6
        THEN add("D", "Consolidate third-party tags and use fewer external hosts.")
        ELSE IF ext > 4
        THEN add("C", "Self-host fonts/critical assets; defer non-critical tags.")
        ELSE IF ext > 2
        THEN add("B", "Prefer CDN subdomains you already use.")
        ELSE IF im = "api" THEN add("A", "")
        ELSE issues

fixedRules(im, issues) ==
    addIssue(im,
        addIssue(im, issues, "cookies", "Use cookie-free domains for static assets", "B",
                 "Serve images/static assets from a cookieless subdomain or CDN."),
        "empty_src", "Avoid empty src or href", "A",
        "Scan templates for empty attributes that trigger extra requests.")

\* the issues array, in the order the rules run
issuesOf(im, originHost, audits) ==
    fixedRules(im,
      dnsRule(im,
        gzipRule(im,
          expiresHeadersRule(im,
            httpRequestsRule(im, <<>>, reqs(audits)),
            Opt(Get(audits, "uses-long-cache-ttl"), "score")),
          Opt(Get(audits, "uses-text-compression"), "score")),
        externalHosts(Iterated(itemList(audits)), originHost)))

(***************************************************************************)
(* The whole transform, from the parsed upstream JSON to the summary, or   *)
(* to the exception it throws.                                             *)
(***************************************************************************)
\* the summary of the audits, target being new URL(url) as the DNS rule
\* parses it
summary(im, data, audits, target) ==
    IF ~target.ok THEN Thrown("Invalid URL")
    ELSE IF ~Iterable(itemList(audits)) THEN Thrown("items is not iterable")
    ELSE [threw |-> FALSE,
          body  |-> [score      |-> score(data),
                     lcp        |-> lcp(audits),
                     cls        |-> cls(audits),
                     inp        |-> inp(audits),
                     requests   |-> reqs(audits),
                     pageSizeMB |-> pageSizeMB(audits),
                     loadTimeS  |-> loadTimeS(audits),
                     issues     |-> issuesOf(im, target.host, audits)]]

transform(im, url, data) ==
    IF IsNullish(data)
    THEN Thrown("Cannot read properties of null (reading 'lighthouseResult')")
    ELSE IF StringThrows(url) THEN Text(url)
    ELSE summary(im, data, auditsOf(data), ParseUrl(Text(url)))

(***************************************************************************)
(* The message of the SyntaxError JSON.parse throws on the text of a body  *)
(* that is not JSON, for texts that go wrong at their first character      *)
(* after white space or inside a leading true, false or null on a          *)
(* character that starts neither a number nor a string.                    *)
(***************************************************************************)
\* the message for the unexpected character at pos (counted from 1), or
\* for the end of the text when pos lies past it.  The message quotes all
\* of a text under 21 characters, else up to 10 characters each side.
JsonUnexpected(cs, pos) ==
    LET n == Len(cs)
        context ==
            IF n < 21 THEN "\"" \o Join(cs) \o "\""
            ELSE IF pos - 1 < 10
            THEN "\"" \o Join(SubSeq(cs, 1, pos + 9)) \o "\"..."
            ELSE IF pos - 1 < n - 10
            THEN "...\"" \o Join(SubSeq(cs, pos - 10, pos + 9)) \o "\"..."
            ELSE "...\"" \o Join(SubSeq(cs, pos - 10, n)) \o "\""
    IN  CASE pos > n -> "Unexpected end of JSON input"
          [] pos <= n /\ Join(cs) \in {"NaN", "Infinity", "undefined"} ->
                "\"" \o Join(cs) \o "\" is not valid JSON"
          [] pos <= n /\ Join(cs) \notin {"NaN", "Infinity", "undefined"}
                     /\ cs[pos] \notin Digits \cup {"-", "\""} ->
                "Unexpected token '" \o cs[pos] \o "', " \o context
                    \o " is not valid JSON"

\* JSON.parse(text) of a text that is not JSON: white space is skipped,
\* then the text ends, or starts a word that leaves true, false or null
\* at some character, or starts with a character no JSON value starts with
SyntaxErrorMessage(text) ==
    LET cs    == Chars(text)
        start == First(cs, 1, {" ", "\t", "\n", "\r"}, FALSE)
        word  == CASE cs[start] = "t" -> Chars("true")
                   [] cs[start] = "f" -> Chars("false")
                   [] cs[start] = "n" -> Chars("null")
        \* how many characters of cs from start on agree with the word
        same  == CHOOSE k \in 0..Len(word) :
                    /\ \A i \in 1..k : start + i - 1 <= Len(cs)
                                         /\ cs[start + i - 1] = word[i]
                    /\ \/ k = Len(word)
                       \/ start + k > Len(cs)
                       \/ cs[start + k] # word[k + 1]
    IN  CASE start > Len(cs) -> JsonUnexpected(cs, start)
          [] start <= Len(cs) /\ cs[start] \in {"t", "f", "n"} /\ same < Len(word) ->
                JsonUnexpected(cs, start + same)
          [] start <= Len(cs) /\ cs[start] \notin Digits \cup {"-", "\"", "[", "{", "t", "f", "n"} ->
                JsonUnexpected(cs, start)

(***************************************************************************)
(* Inputs: the requests the platform can hand to the handler.              *)
(***************************************************************************)
ALLOWED ==
    << RawStr("https://pinedesignmarketing.com"),
       RawStr("https://www.pinedesignmarketing.com"),
       RawStr("http://localhost:3000") >>

Methods == {"OPTIONS", "POST", "GET", "DELETE"}

\* the Origin header: absent, allow-listed, or something else
OriginHeaders ==
    {Undef, RawStr("https://evil.example")} \cup {ALLOWED[i] : i \in DOMAIN ALLOWED}

\* host name 0 is the audited site; 1, 2, ... are third-party hosts
TargetUrls ==
    { UrlStr("https", 0, -1), UrlStr("https", 0, 443), UrlStr("http", 0, 8080) }

\* values of the body's url property: missing or falsy ones, values whose
\* text is no URL, values that have no text (an object with a toString
\* property, alone or in an array), and values whose text is a URL without
\* a host or the target URL itself
UrlValues ==
    {Undef, JNull, RawStr(""), Num(0), RawStr("example.com"), Num(42),
     OpaqueStr("localhost", "3000"),
     JObj,
     [t |-> "obj", toString |-> RawStr("x")],
     [t |-> "arr", elems |-> <<[t |-> "obj", toString |-> JNull]>>],
     [t |-> "arr", elems |-> <<UrlStr("https", 0, -1)>>]} \cup TargetUrls

\* req.body: missing, null, an unparsed string, or an object
Bodies ==
    {Undef, JNull, RawStr("url=x")} \cup {[t |-> "obj", url |-> u] : u \in UrlValues}

Requests ==
    [method : Methods, headers : [origin : OriginHeaders], body : Bodies]

(***************************************************************************)
(* Inputs: what the upstream audit API can answer.                         *)
(***************************************************************************)
Statuses == {200, 403, 500}

Texts == {"", "quota exceeded"}

\* upstream bodies that are not JSON: empty, blank, error pages and plain
\* words (short, long, after white space), and words that start like null
BadJson ==
    {"", " \n", "<html><body>Service Unavailable</body></html>", "Not Found",
     "undefined", "nope", "nul", "  \t<!DOCTYPE html><title>502</title>",
     "upstream request timeout }",
     "            <h1>Bad Gateway</h1>",
     "                    oops"}

\* an audit object carrying a numericValue (or no audit at all)
NV(v) == IF v = Undef THEN Undef ELSE [t |-> "obj", numericValue |-> v]

\* an audit object carrying a score
SC(v) == IF v = Undef THEN Undef ELSE [t |-> "obj", score |-> v]

\* the network-requests audit with its details.items
NR(items) ==
    IF items = Undef THEN Undef
    ELSE [t |-> "obj", details |-> [t |-> "obj", items |-> items]]

Arr(elems) == [t |-> "arr", elems |-> elems]

Item(u) == [t |-> "obj", url |-> u]

MkAudits(lcpV, clsV, inpV, fidV, bytesV, siV, ttiV, cacheV, compV, items) ==
    ("t" :> "obj")
    @@ ("largest-contentful-paint" :> NV(lcpV))
    @@ ("cumulative-layout-shift" :> NV(clsV))
    @@ ("experimental-interaction-to-next-paint" :> NV(inpV))
    @@ ("max-potential-fid" :> NV(fidV))
    @@ ("total-byte-weight" :> NV(bytesV))
    @@ ("speed-index" :> NV(siV))
    @@ ("interactive" :> NV(ttiV))
    @@ ("uses-long-cache-ttl" :> SC(cacheV))
    @@ ("uses-text-compression" :> SC(compV))
    @@ ("network-requests" :> NR(items))

MkData(perf, audits) ==
    [t |-> "obj",
     lighthouseResult |->
        [t |-> "obj",
         categories |-> [t |-> "obj", performance |-> SC(perf)],
         audits |-> audits]]

\* sub-scores around the thresholds of the grading ladder
Scores ==
    {Undef} \cup {Rat(k, 100) : k \in {0, 39, 40, 69, 70, 89, 90, 95, 100}}

\* payloads that vary the core metrics
MetricPayloads ==
    { MkData(perf, MkAudits(l, c, i, f, b, si, tti, Undef, Undef, Undef)) :
        perf \in {Undef, Rat(85, 100), Rat(575, 1000)},
        l    \in {Undef, Num(0), Num(2500), Rat(21, 10)},
        c    \in {Undef, Rat(12, 100)},
        i    \in {Undef, Num(200)},
        f    \in {Undef, Num(130)},
        b    \in {Num(0)},
        si   \in {Undef},
        tti  \in {Undef} }
    \cup
    { MkData(Undef, MkAudits(Undef, Undef, Undef, Undef, b, si, tti, Undef, Undef, Undef)) :
        b    \in {Undef, Num(0), Num(2 * 1024 * 1024)},
        si   \in {Undef, Num(0), Num(3400), Rat(41, 10)},
        tti  \in {Undef, Num(5000)} }

\* payloads that vary the two graded sub-scores
GradePayloads ==
    { MkData(Undef, MkAudits(Undef, Undef, Undef, Undef, Undef, Undef, Undef,
                             cacheV, compV, Undef)) :
        cacheV \in Scores, compV \in Scores }

\* n items on host name h, written scheme://h
Pad(n, u) == [i \in 1..n |-> Item(u)]

\* one item for each third-party host 1..n
Externals(n) == [i \in 1..n |-> Item(UrlStr("https", i, -1))]

RECURSIVE Repeat(_, _)
Repeat(k, sq) == IF k = 0 THEN <<>> ELSE sq \o Repeat(k - 1, sq)

\* items on the audited site's own name, in its different spellings
OwnItems ==
    { <<>>,
      <<Item(UrlStr("https", 0, -1))>>,
      <<Item(UrlStr("https", 0, 443)), Item(UrlStr("http", 0, -1))>>,
      <<Item(UrlStr("http", 0, 8080))>> }

\* long item lists, around the thresholds of the request count
LongItems ==
    { Pad(45, UrlStr("https", 0, -1)),
      Pad(61, UrlStr("https", 0, -1)) \o Externals(3),
      Pad(91, UrlStr("https", 0, -1)) \o Externals(MaxExternal) }

\* items the loop skips (a null item, an item without url, a relative
\* url, a file url with a port), items whose url has no host, and a url
\* that names third-party host 1 without slashes
BadItems ==
    { <<>>,
      <<JNull, Item(Undef), Item(RawStr("/app.js")), Item(UrlStr("file", 1, 80))>>,
      <<Item(OpaqueStr("data", "image/gif;base64,R0lGOD")),
        Item(OpaqueStr("about", "blank")),
        Item(OpaqueStr("HTTPS", "h1.example:443/x.js"))>> }

ItemLists ==
    { own \o Externals(n) \o bad \o Repeat(k, Externals(n)) :
        own \in OwnItems, n \in 0..MaxExternal, bad \in BadItems, k \in 0..MaxRepeat }
    \cup LongItems

AllUndef(items) ==
    MkAudits(Undef, Undef, Undef, Undef, Undef, Undef, Undef, Undef, Undef, items)

\* payloads that vary the network-request items
ItemPayloads ==
    { MkData(Undef, AllUndef(Arr(sq))) : sq \in ItemLists }

\* payloads with parts missing or of an unexpected shape
OddPayloads ==
    { JNull,
      JObj,
      [t |-> "obj", lighthouseResult |-> JObj],
      MkData(Undef, AllUndef(JObj)),
      MkData(Undef, AllUndef(RawStr("abc"))),
      MkData(Undef, AllUndef(RawStr(""))),
      MkData(Undef, AllUndef(Num(3))),
      MkData(Undef, AllUndef([t |-> "obj", length |-> Num(95)])),
      MkData(Undef, AllUndef([t |-> "obj", length |-> Rat(181, 4)])) }

Payloads == MetricPayloads \cup GradePayloads \cup ItemPayloads \cup OddPayloads

(***************************************************************************)
(* The handler.                                                            *)
(***************************************************************************)
Impls == {"run", "api"}

\* req.headers.origin || ''
ORIGIN(rq) ==
    IF Truthy(rq.headers.origin) THEN rq.headers.origin ELSE RawStr("")

\* ALLOWED.includes(ORIGIN)
Includes(list, v) == \E i \in DOMAIN list : list[i] = v

\* Variant of corsHeaders that echoes whatever origin the request declares.
corsHeadersEchoAny(rq) ==
    (IF ORIGIN(rq).raw # ""
     THEN ("Access-Control-Allow-Origin" :> ORIGIN(rq).raw) @@ ("Vary" :> "Origin")
     ELSE << >>)
    @@ ("Access-Control-Allow-Methods" :> "POST, OPTIONS")
    @@ ("Access-Control-Allow-Headers" :> "Content-Type")

\* the four setHeader calls at the top of the handler
corsHeaders(rq) ==
    (IF Includes(ALLOWED, ORIGIN(rq))
     THEN ("Access-Control-Allow-Origin" :> ORIGIN(rq).raw) @@ ("Vary" :> "Origin")
     ELSE << >>)
    @@ ("Access-Control-Allow-Methods" :> "POST, OPTIONS")
    @@ ("Access-Control-Allow-Headers" :> "Content-Type")

\* const { url } = req.body || {}
urlOf(rq) == Get(OrEmpty(rq.body), "url")

\* the body res.end() sends
EmptyBody == << >>

\* res.status(code).json(body) and res.status(code).end(): the response
\* goes out with the headers set so far
Send(code, body) ==
    /\ res'  = [res EXCEPT !.statusCode = code]
    /\ sent' = Append(sent, [status |-> code, headers |-> res.headers, body |-> body])

\* the same, in an action that has just set the headers
SendWith(headers, code, body) ==
    /\ res'  = [statusCode |-> code, headers |-> headers]
    /\ sent' = Append(sent, [status |-> code, headers |-> headers, body |-> body])

\* Variant of Catch that answers 500 without the exception's message.
CatchWithoutDetail(message, stages) ==
    /\ log' = Append(log, message)
    /\ Send(500, [error |-> "Server error"])
    /\ reached' = reached \cup stages \cup {"catch"}
    /\ pc' = "done"

\* the catch block: log the exception, answer 500 with its message
Catch(message, stages) ==
    /\ log' = Append(log, message)
    /\ Send(500, [error |-> "Server error", detail |-> message])
    /\ reached' = reached \cup stages \cup {"catch"}
    /\ pc' = "done"

Init ==
    /\ impl \in Impls
    /\ req \in Requests
    /\ pc = "entry"
    /\ res = [statusCode |-> 200, headers |-> << >>]
    /\ sent = << >>
    /\ outbound = << >>
    /\ r = Undef
    /\ log = << >>
    /\ reached = {}

\* Variant of Preflight in which the OPTIONS test comes after the method
\* test, so that a pre-flight request is refused like any non-POST.
PreflightAfterMethodTest ==
    /\ pc = "entry"
    /\ req.method = "OPTIONS"
    /\ SendWith(corsHeaders(req), 405, [error |-> "Use POST { url }"])
    /\ reached' = reached \cup {"cors", "method"}
    /\ pc' = "done"
    /\ UNCHANGED <<impl, req, outbound, r, log>>

\* OPTIONS: headers, then res.status(200).end()
Preflight ==
    /\ pc = "entry"
    /\ req.method = "OPTIONS"
    /\ SendWith(corsHeaders(req), 200, EmptyBody)
    /\ reached' = reached \cup {"cors", "preflight"}
    /\ pc' = "done"
    /\ UNCHANGED <<impl, req, outbound, r, log>>

\* Variant of MethodNotAllowed without the method test: a non-POST request
\* falls through to the url test.
MethodFallsThrough ==
    /\ pc = "entry"
    /\ req.method # "OPTIONS"
    /\ req.method # "POST"
    /\ IF Truthy(urlOf(req))
       THEN /\ res' = [res EXCEPT !.headers = corsHeaders(req)]
            /\ outbound' = Append(outbound,
                  [method   |-> "GET",
                   endpoint |-> "https://www.googleapis.com/pagespeedonline/v5/runPagespeed",
                   url      |-> urlOf(req),
                   key      |-> "process.env.PSI_KEY",
                   strategy |-> "mobile"])
            /\ reached' = reached \cup {"cors", "body", "upstream"}
            /\ pc' = "fetch"
            /\ sent' = sent
       ELSE /\ SendWith(corsHeaders(req), 400, [error |-> "Missing url"])
            /\ reached' = reached \cup {"cors", "body"}
            /\ pc' = "done"
            /\ outbound' = outbound
    /\ UNCHANGED <<impl, req, r, log>>

\* a method other than POST: 405
MethodNotAllowed ==
    /\ pc = "entry"
    /\ req.method # "OPTIONS"
    /\ req.method # "POST"
    /\ SendWith(corsHeaders(req), 405, [error |-> "Use POST { url }"])
    /\ reached' = reached \cup {"cors", "method"}
    /\ pc' = "done"
    /\ UNCHANGED <<impl, req, outbound, r, log>>

\* POST without a truthy url: 400
MissingUrl ==
    /\ pc = "entry"
    /\ req.method = "POST"
    /\ ~Truthy(urlOf(req))
    /\ SendWith(corsHeaders(req), 400, [error |-> "Missing url"])
    /\ reached' = reached \cup {"cors", "method", "body"}
    /\ pc' = "done"
    /\ UNCHANGED <<impl, req, outbound, r, log>>

\* POST with a url: build psiURL and call fetch(psiURL).  Setting the url
\* parameter converts url to a string inside the try: when that throws, no
\* call is made and the catch block answers.
CallUpstream ==
    /\ pc = "entry"
    /\ req.method = "POST"
    /\ Truthy(urlOf(req))
    /\ IF StringThrows(urlOf(req))
       THEN /\ log' = Append(log, ToStr(urlOf(req)).message)
            /\ SendWith(corsHeaders(req), 500,
                        [error |-> "Server error", detail |-> ToStr(urlOf(req)).message])
            /\ reached' = reached \cup {"cors", "method", "body", "catch"}
            /\ pc' = "done"
            /\ outbound' = outbound
       ELSE /\ res' = [res EXCEPT !.headers = corsHeaders(req)]
            /\ outbound' = Append(outbound,
                  [method   |-> "GET",
                   endpoint |-> "https://www.googleapis.com/pagespeedonline/v5/runPagespeed",
                   url      |-> ToStr(urlOf(req)),
                   key      |-> "process.env.PSI_KEY",
                   strategy |-> "mobile"])
            /\ reached' = reached \cup {"cors", "method", "body", "upstream"}
            /\ pc' = "fetch"
            /\ UNCHANGED <<sent, log>>
    /\ UNCHANGED <<impl, req, r>>

\* Variant of FetchRejects that tries the upstream call once more.
FetchRejectsRetry ==
    /\ pc = "fetch"
    /\ Len(outbound) < 3
    /\ outbound' = Append(outbound, outbound[1])
    /\ log' = Append(log, "fetch failed")
    /\ UNCHANGED <<impl, req, pc, res, sent, r, reached>>

\* await fetch(psiURL) rejects (network failure)
FetchRejects ==
    /\ pc = "fetch"
    /\ Catch("fetch failed", {})
    /\ UNCHANGED <<impl, req, outbound, r>>

\* await fetch(psiURL) resolves with a response of some status.  On a
\* non-success status src/api/run.js calls res.status(r.status) before it
\* awaits r.text(); src/run.js awaits r.text() first.
FetchResolves ==
    /\ pc = "fetch"
    /\ \E st \in Statuses :
          LET ok == st >= 200 /\ st <= 299
          IN  /\ r' = [t |-> "obj", status |-> st, ok |-> ok,
                        text |-> Undef, data |-> Undef]
              /\ pc' = IF ok THEN "json" ELSE "text"
              /\ res' = IF ~ok /\ impl = "api"
                        THEN [res EXCEPT !.statusCode = st]
                        ELSE res
    /\ UNCHANGED <<impl, req, sent, outbound, log, reached>>

\* Variant of TextResolves that answers 502 for any upstream failure.
TextResolvesBadGateway ==
    /\ pc = "text"
    /\ \E txt \in Texts :
          /\ r' = [r EXCEPT !.text = RawStr(txt)]
          /\ Send(502, [error |-> "PSI error", detail |-> txt])
    /\ pc' = "done"
    /\ UNCHANGED <<impl, req, outbound, log, reached>>

\* await r.text() resolves: forward the status and the text
TextResolves ==
    /\ pc = "text"
    /\ \E txt \in Texts :
          /\ r' = [r EXCEPT !.text = RawStr(txt)]
          /\ Send(r.status, [error |-> "PSI error", detail |-> txt])
    /\ pc' = "done"
    /\ UNCHANGED <<impl, req, outbound, log, reached>>

\* await r.text() rejects (the connection drops while the body is read)
TextRejects ==
    /\ pc = "text"
    /\ Catch("terminated", {})
    /\ UNCHANGED <<impl, req, outbound, r>>

\* await r.json() rejects: the body is not JSON, and JSON.parse says where
JsonRejects ==
    /\ pc = "json"
    /\ \E txt \in BadJson :
          /\ r' = [r EXCEPT !.text = RawStr(txt)]
          /\ Catch(SyntaxErrorMessage(txt), {})
    /\ UNCHANGED <<impl, req, outbound>>

\* await r.json() resolves; the transform runs to its response or throws
\* the answer after r.json() gave data and the transform gave out
Answer(data, out) ==
    /\ r' = [r EXCEPT !.data = data]
    /\ IF out.threw
       THEN Catch(out.message, {"transform"})
       ELSE /\ Send(200, out.body)
            /\ reached' = reached \cup {"transform"}
            /\ pc' = "done"
            /\ log' = log

JsonResolves ==
    /\ pc = "json"
    /\ \E data \in Payloads : Answer(data, transform(impl, urlOf(req), data))
    /\ UNCHANGED <<impl, req, outbound>>

Next ==
    \/ Preflight
    \/ MethodNotAllowed
    \/ MissingUrl
    \/ CallUpstream
    \/ FetchRejects
    \/ FetchResolves
    \/ TextResolves
    \/ TextRejects
    \/ JsonRejects
    \/ JsonResolves

Spec == Init /\ [][Next]_vars

(***************************************************************************)
(* Vocabulary of the properties.                                           *)
(***************************************************************************)
Done == pc = "done"

\* the handler has returned and exactly one response went out
Answered == Done /\ Len(sent) = 1

SummaryFields ==
    {"score", "lcp", "cls", "inp", "requests", "pageSizeMB", "loadTimeS", "issues"}

NoSummaryField(body) == DOMAIN body \cap SummaryFields = {}

\* the response is a 200 summary
SummarySent == Answered /\ sent[1].status = 200 /\ DOMAIN sent[1].body = SummaryFields

IssuesWithKey(body, key) == SelectSeq(body.issues, LAMBDA i : i.key = key)

\* the Origin header is one of the three allow-listed origins
OriginAllowed ==
    /\ req.headers.origin.t = "str"
    /\ req.headers.origin.raw \in { "https://pinedesignmarketing.com",
                                    "https://www.pinedesignmarketing.com",
                                    "http://localhost:3000" }

\* a POST that passes validation
ValidPost == req.method = "POST" /\ Truthy(urlOf(req))

(***************************************************************************)
(* C1.  A request whose method is OPTIONS, whatever its origin and body,   *)
(* is answered 200 with an empty body, and the handler never reaches       *)
(* method or body validation, the upstream call or the transform.          *)
(***************************************************************************)
C1_PreflightShortCircuits ==
    req.method = "OPTIONS" =>
        /\ pc \in {"entry", "done"}
        /\ outbound = << >>
        /\ reached \subseteq {"cors", "preflight"}
        /\ Done => /\ Len(sent) = 1
                   /\ sent[1].status = 200
                   /\ sent[1].body = EmptyBody

C1_Witness ==
    /\ Done
    /\ req.method = "OPTIONS"
    /\ ~OriginAllowed
    /\ Truthy(urlOf(req))
    /\ sent[1].status = 200

(***************************************************************************)
(* C2.  When the upstream call returns a non-success status S with body    *)
(* text T, the response has status S and body {error: 'PSI error',         *)
(* detail: T}; the upstream JSON is not parsed and the response has no     *)
(* summary field.                                                          *)
(***************************************************************************)
UpstreamFailedWithText == r.t = "obj" /\ ~r.ok /\ r.text.t = "str"

C2_UpstreamErrorForwarded ==
    UpstreamFailedWithText =>
        /\ Answered
        /\ sent[1].status = r.status
        /\ sent[1].body = [error |-> "PSI error", detail |-> r.text.raw]
        /\ NoSummaryField(sent[1].body)
        /\ r.data = Undef
        /\ "transform" \notin reached

C2_Witness ==
    /\ UpstreamFailedWithText
    /\ r.status = 403
    /\ r.text.raw = "quota exceeded"
    /\ sent[1].status = 403

(***************************************************************************)
(* C3.  A POST whose body is missing, or whose url field is missing or     *)
(* empty, is answered 400 {error: 'Missing url'} and no upstream call is   *)
(* issued.                                                                 *)
(***************************************************************************)
BodyLacksUrl ==
    \/ req.body = Undef
    \/ /\ req.body.t = "obj"
       /\ req.body.url \in {Undef, RawStr("")}

C3_MissingUrlRejected ==
    (req.method = "POST" /\ BodyLacksUrl) =>
        /\ pc \in {"entry", "done"}
        /\ outbound = << >>
        /\ Done => /\ Len(sent) = 1
                   /\ sent[1].status = 400
                   /\ sent[1].body = [error |-> "Missing url"]

C3_Witness ==
    /\ Done
    /\ req.method = "POST"
    /\ req.body.t = "obj"
    /\ req.body.url = RawStr("")
    /\ sent[1].status = 400

(***************************************************************************)
(* C4.  A request whose method is neither POST nor OPTIONS, whatever its   *)
(* body, is answered 405 {error: 'Use POST { url }'} and no upstream call  *)
(* is issued.                                                              *)
(***************************************************************************)
C4_OtherMethodsRejected ==
    req.method \notin {"POST", "OPTIONS"} =>
        /\ pc \in {"entry", "done"}
        /\ outbound = << >>
        /\ Done => /\ Len(sent) = 1
                   /\ sent[1].status = 405
                   /\ sent[1].body = [error |-> "Use POST { url }"]

C4_Witness ==
    /\ Done
    /\ req.method = "GET"
    /\ Truthy(urlOf(req))
    /\ sent[1].status = 405

(***************************************************************************)
(* C5.  For a valid POST, an exception raised during the upstream call or  *)
(* the transform (the url having no string form when the call is built,    *)
(* the fetch failing, the upstream body not parsing as JSON, the target    *)
(* url not parsing as a URL) is caught and answered 500                    *)
(* {error: 'Server error', detail: <message>}, the message being the       *)
(* exception's own, with no summary field.                                 *)
(***************************************************************************)
UrlHasNoText     == Done /\ StringThrows(urlOf(req))
FetchFailed      == Done /\ outbound # << >> /\ r = Undef
JsonParseFailed  == Done /\ r.t = "obj" /\ r.ok /\ r.data = Undef
TargetUrlInvalid == Done /\ r.t = "obj" /\ r.ok /\ ~IsNullish(r.data)
                         /\ ~UrlParses(urlOf(req))

ExceptionRaised ==
    \/ "catch" \in reached
    \/ UrlHasNoText \/ FetchFailed \/ JsonParseFailed \/ TargetUrlInvalid

C5_ExceptionsBecome500 ==
    (ValidPost /\ ExceptionRaised) =>
        /\ Answered
        /\ Len(log) = 1
        /\ sent[1].status = 500
        /\ sent[1].body = [error |-> "Server error", detail |-> log[1]]
        /\ NoSummaryField(sent[1].body)
        /\ UrlHasNoText =>
              /\ log[1] = "Cannot convert object to primitive value"
              /\ outbound = << >>
        /\ FetchFailed => log[1] = "fetch failed"
        /\ JsonParseFailed =>
              /\ log[1] = SyntaxErrorMessage(r.text.raw)
              /\ r.text.raw = "" => log[1] = "Unexpected end of JSON input"
              /\ r.text.raw = "<html><body>Service Unavailable</body></html>" =>
                    log[1] = "Unexpected token '<', \"<html><bod\"... is not valid JSON"
              /\ r.text.raw = "Not Found" =>
                    log[1] = "Unexpected token 'N', \"Not Found\" is not valid JSON"
        /\ TargetUrlInvalid => log[1] = "Invalid URL"

C5_Witness ==
    /\ ValidPost
    /\ TargetUrlInvalid
    /\ r.data.t = "obj"
    /\ sent[1].status = 500
    /\ sent[1].body.detail = "Invalid URL"

(***************************************************************************)
(* C6.  Every response carries Access-Control-Allow-Origin exactly when    *)
(* the request's Origin header is one of the three allow-listed origins,   *)
(* with that origin as its value, and Vary: Origin under the same          *)
(* condition; and the status and body of the response do not depend on     *)
(* the origin: they are the ones fixed by the method, the body and the     *)
(* upstream's answer alone.                                                *)
(***************************************************************************)
\* the status and body the request gets, told from everything but its
\* origin: the method, the body, and what the upstream call came to
ServerError(message) == <<500, [error |-> "Server error", detail |-> message]>>

TransformOutcome(out) ==
    IF out.threw THEN ServerError(out.message) ELSE <<200, out.body>>

OriginBlindOutcome ==
    IF req.method = "OPTIONS" THEN <<200, EmptyBody>>
    ELSE IF req.method # "POST" THEN <<405, [error |-> "Use POST { url }"]>>
    ELSE IF ~Truthy(urlOf(req)) THEN <<400, [error |-> "Missing url"]>>
    ELSE IF StringThrows(urlOf(req))
    THEN ServerError("Cannot convert object to primitive value")
    ELSE IF r = Undef THEN ServerError("fetch failed")
    ELSE IF ~r.ok
    THEN IF r.text = Undef THEN ServerError("terminated")
         ELSE <<r.status, [error |-> "PSI error", detail |-> r.text.raw]>>
    ELSE IF r.data = Undef THEN ServerError(SyntaxErrorMessage(r.text.raw))
    ELSE TransformOutcome(transform(impl, urlOf(req), r.data))

CorsHeadersRight(h) ==
    /\ ("Access-Control-Allow-Origin" \in DOMAIN h) <=> OriginAllowed
    /\ ("Vary" \in DOMAIN h) <=> OriginAllowed
    /\ OriginAllowed => /\ h["Access-Control-Allow-Origin"] = req.headers.origin.raw
                        /\ h["Vary"] = "Origin"

C6_CorsIsAdvisory ==
    /\ \A i \in DOMAIN sent : CorsHeadersRight(sent[i].headers)
    /\ Done => /\ Len(sent) = 1
               /\ <<sent[1].status, sent[1].body>> = OriginBlindOutcome

C6_Witness ==
    /\ SummarySent
    /\ ~OriginAllowed
    /\ req.headers.origin # Undef
    /\ "Access-Control-Allow-Origin" \notin DOMAIN sent[1].headers

(***************************************************************************)
(* C7.  An invocation issues at most one upstream GET, only for a POST     *)
(* with a non-empty url, and sends exactly one response: never a second    *)
(* one, and it does not return, or stop, without one.                      *)
(***************************************************************************)
C7_OneCallOneResponse ==
    /\ Len(outbound) <= 1
    /\ Len(sent) <= 1
    /\ outbound # << >> => ValidPost /\ ~StringThrows(urlOf(req))
    /\ Done <=> Len(sent) = 1
    /\ ~Done => ENABLED Next

C7_Witness ==
    /\ Done
    /\ Len(outbound) = 1
    /\ Len(sent) = 1
    /\ r.t = "obj"
    /\ r.status = 500

(***************************************************************************)
(* C8.  Every 200 summary contains a dns issue graded on the number of     *)
(* distinct external hosts among the network-request items (hosts other    *)
(* than the target url's host, each counted once, items whose url does     *)
(* not parse skipped): more than 6 gives D, more than 4 C, more than 2 B,  *)
(* otherwise A; with no network-requests audit requests is null and the    *)
(* grade is A.                                                             *)
(***************************************************************************)
\* the items of the upstream answer, as the loop visits them
ItemsReceived == Iterated(itemList(auditsOf(r.data)))

\* the distinct hosts of the items that parse, the target's own host left out
ExternalHostSet ==
    LET parsed == { ItemUrl(ItemsReceived[i]) : i \in DOMAIN ItemsReceived }
    IN  { p.host : p \in { q \in parsed : q.ok } } \ { HostOf(urlOf(req)) }

DnsGrade(k) ==
    IF k > 6 THEN "D" ELSE IF k > 4 THEN "C" ELSE IF k > 2 THEN "B" ELSE "A"

DnsIssueRight(body) ==
    LET dns == IssuesWithKey(body, "dns")
    IN  /\ Len(dns) = 1
        /\ dns[1].grade = DnsGrade(Cardinality(ExternalHostSet))

C8_DnsIssueGraded ==
    SummarySent =>
        /\ DnsIssueRight(sent[1].body)
        /\ itemsOf(auditsOf(r.data)) = Undef => sent[1].body.requests = JNull

(***************************************************************************)
(* C9.  Every 200 summary contains an expires_headers issue graded on the  *)
(* uses-long-cache-ttl score and a gzip issue graded on the                *)
(* uses-text-compression score, by one ladder: >= 0.9 gives A, >= 0.7 B,   *)
(* >= 0.4 C, lower D, and a missing score gives C.                         *)
(***************************************************************************)
LadderGrade(sc) ==
    IF sc = Undef THEN "C"
    ELSE IF 10 * sc.n >= 9 * sc.d THEN "A"
    ELSE IF 10 * sc.n >= 7 * sc.d THEN "B"
    ELSE IF 10 * sc.n >= 4 * sc.d THEN "C"
    ELSE "D"

ScoreReceived(name) == Opt(Get(auditsOf(r.data), name), "score")

LadderIssueRight(body, key, name) ==
    LET found == IssuesWithKey(body, key)
    IN  /\ Len(found) = 1
        /\ found[1].grade = LadderGrade(ScoreReceived(name))

C9_ScoreLaddersGraded ==
    SummarySent =>
        /\ LadderIssueRight(sent[1].body, "expires_headers", "uses-long-cache-ttl")
        /\ LadderIssueRight(sent[1].body, "gzip", "uses-text-compression")

(***************************************************************************)
(* C10.  In every 200 summary lcp is null only when the                    *)
(* largest-contentful-paint numeric value is absent; whenever the value    *)
(* is present, the value 0 included, lcp is the value divided by 1000      *)
(* (as doubles divide: the double nearest to the exact quotient or one     *)
(* next to it).                                                            *)
(***************************************************************************)
LcpReceived == NumericValue(auditsOf(r.data), "largest-contentful-paint")

C10_LcpInSeconds ==
    SummarySent =>
        /\ sent[1].body.lcp = JNull => LcpReceived = Undef
        /\ LcpReceived # Undef =>
              /\ sent[1].body.lcp.t = "num"
              /\ 1000 * LcpReceived.d * sent[1].body.lcp.n
                   = LcpReceived.n * sent[1].body.lcp.d
              /\ sent[1].body.lcp.ulp \in {-1, 0, 1}

====
